---- MODULE Spec2Model ----
(***************************************************************************)
(* photos_dedupe: the deduplication engine (dedupe.py), the hash           *)
(* calculator with its caches (hashing.py) and the file accessors they     *)
(* call (utils.py).                                                        *)
(*                                                                         *)
(* A path is a number; the order of the numbers is the lexicographic order *)
(* of the path strings.  A digest is the number of the byte content it was *)
(* computed from (SHA-256 taken as collision free), a fingerprint is a     *)
(* tuple of bits.  Python's None is None for a number and the empty tuple  *)
(* for a fingerprint string.                                               *)
(***************************************************************************)
EXTENDS Integers, Sequences, FiniteSets, TLC

\* ---------------------------------------------------------------- bounds
MaxFiles == 3
MaxThreshold == 1
MaxUnreadable == 1
MaxOthers == 2
MaxBits == 3
MaxHashed == 2
MaxInputs == 2
MaxCalls == 3

\* ------------------------------------------------------------- constants
None == -1
NoPath == 0
INCOMPARABLE == 999
IMAGEHASH_AVAILABLE == TRUE

Modes == {"exact", "perceptual", "exact+perceptual"}

Range(s) == {s[i] : i \in DOMAIN s}

SeqsUpTo(S, n) == UNION {[1..k -> S] : k \in 0..n}

VARIABLES
    mode,               \* Deduplicator.mode
    phash_threshold,    \* Deduplicator.phash_threshold
    files,              \* the argument of create_duplicate_groups / select_winner
    disk,               \* path -> what the accessors of utils.py read from the file
    unreadable,         \* the paths whose bytes calculate_sha256 fails to read
    sha256_cache,       \* HashCalculator.sha256_cache (None: no entry)
    phash_cache,        \* HashCalculator.phash_cache (<<>>: no entry)
    duplicate_groups,   \* Deduplicator.duplicate_groups
    group_id,           \* the local group_id of create_duplicate_groups
    exact_groups,       \* the local exact_groups, the part not yet iterated
    file_hashes,        \* the local file_hashes of find_perceptual_duplicates
    perceptual_groups,  \* the local perceptual_groups, the part not yet iterated
    pc,                 \* where create_duplicate_groups stands
    run,                \* which call on this input this is, and on which Deduplicator
    prev,               \* what the previous call returned
    sel,                \* what select_winner returned
    sha256_reads,       \* path -> the calls of calculate_sha256 on it in this call
    ret,                \* what the last direct call of a HashCalculator method returned
    hashed,             \* find_perceptual_duplicates: how many of image_files have been hashed
    seed_index,         \* find_perceptual_duplicates: the index i of the outer loop
    scan_index,         \* find_perceptual_duplicates: the index of file2 in files_list
    seed_group,         \* find_perceptual_duplicates: the local group
    min_distance,       \* find_perceptual_duplicates: the local min_distance
    processed_files,    \* find_perceptual_duplicates: the local processed
    comparisons,        \* the calls of hamming_distance so far, as pairs of indices
    inputs,             \* Config.inputs
    action,             \* Config.action
    group_by_year,      \* Config.group_by_year
    exit_status,        \* the exit status of cli.main (None: it has not ended)
    reports,            \* the calls of Reporter.generate_all_reports so far
    handed,             \* the calls of safe_copy and safe_move made by process_files
    sources,            \* the files safe_copy / safe_move are still to be called on
    dst_dir,            \* the destination directory: file name -> what is stored under it
    returned            \* the final paths safe_copy / safe_move returned, in call order

\* the locals of the loops of find_perceptual_duplicates
locals == <<hashed, seed_index, scan_index, seed_group, min_distance, processed_files,
            comparisons>>

\* the configuration and the effects of cli.main
cli == <<inputs, action, group_by_year, exit_status, reports, handed>>

\* the destination directory of safe_copy / safe_move and the calls on it
copying == <<sources, dst_dir, returned>>

vars == <<mode, phash_threshold, files, disk, unreadable, sha256_cache,
          phash_cache, duplicate_groups, group_id, exact_groups, file_hashes,
          perceptual_groups, pc, run, prev, sel, sha256_reads, ret,
          locals, cli, copying>>

\* ------------------------------------------------------------ the files
\* The files under the scanned directories, in the order of their paths:
\*   1 a.jpg   an image, 1x2
\*   2 b.jpg   an image, 2x2, one bit of fingerprint away from a.jpg
\*   3 c.mp4   a video
\*   4 d.jpg   a byte-identical copy of b.jpg
\*   5 e.jpg   an image file PIL cannot decode
\*   6 f.jpg   an image, 2x2, a larger file than b.jpg, one bit away from
\*             b.jpg and two bits away from a.jpg
Disk == <<
    [suffix |-> ".jpg", sha |-> 1, width |-> 1,    height |-> 2,    size |-> 3, phash |-> <<0, 1>>],
    [suffix |-> ".jpg", sha |-> 2, width |-> 2,    height |-> 2,    size |-> 2, phash |-> <<0, 0>>],
    [suffix |-> ".mp4", sha |-> 3, width |-> None, height |-> None, size |-> 2, phash |-> <<>>],
    [suffix |-> ".jpg", sha |-> 2, width |-> 2,    height |-> 2,    size |-> 2, phash |-> <<0, 0>>],
    [suffix |-> ".jpg", sha |-> 4, width |-> None, height |-> None, size |-> 1, phash |-> <<>>],
    [suffix |-> ".jpg", sha |-> 5, width |-> 2,    height |-> 2,    size |-> 3, phash |-> <<1, 0>>] >>

Paths == DOMAIN Disk

\* utils.is_supported_image: decided by the suffix of the path alone
SupportedImageSuffixes ==
    {".jpg", ".jpeg", ".png", ".webp", ".gif", ".heic", ".heif", ".tif", ".tiff"}

is_supported_image(p) == disk[p].suffix \in SupportedImageSuffixes

\* utils.get_file_size
get_file_size(p) == disk[p].size

\* utils.get_image_dimensions: (None, None) when the file cannot be opened as an image
get_image_dimensions(p) == <<disk[p].width, disk[p].height>>

\* utils.calculate_sha256: the digest of the bytes, or an exception
calculate_sha256_raises(p) == p \in unreadable

calculate_sha256(p) == disk[p].sha

\* ------------------------------------------------------- HashCalculator
\* HashCalculator.get_sha256 (use_cache = True): the cached digest if there is
\* one; else the computed digest, stored in the cache; an exception of
\* calculate_sha256 is logged and raised again, and nothing is stored.
get_sha256(cache, p) ==
    IF cache[p] # None
    THEN [raised |-> FALSE, value |-> cache[p], cache |-> cache]
    ELSE IF calculate_sha256_raises(p)
    THEN [raised |-> TRUE, value |-> None, cache |-> cache]
    ELSE [raised |-> FALSE, value |-> calculate_sha256(p),
          cache |-> [cache EXCEPT ![p] = calculate_sha256(p)]]

\* HashCalculator.get_sha256 with use_cache = False: the test of line 40 fails
\* whatever the cache holds, the digest is computed and stored
\* (get_sha256_cached: the flag is not looked at)
get_sha256_cached(cache, p) == get_sha256(cache, p)

get_sha256_bypass(cache, p) ==
    IF calculate_sha256_raises(p)
    THEN [raised |-> TRUE, value |-> None, cache |-> cache]
    ELSE [raised |-> FALSE, value |-> calculate_sha256(p),
          cache |-> [cache EXCEPT ![p] = calculate_sha256(p)]]

\* The calls of calculate_sha256 (line 44) that a run of get_sha256 over the
\* paths of lookups makes, added to reads: a lookup calls it when the cache has
\* no entry for the path.  stop: the caller does not catch the exception, so
\* the lookups end with the first one that raises.
CountReads(lookups, cache, reads, stop) ==
    LET F[i \in 0..Len(lookups)] ==
            IF i = 0 THEN [raised |-> FALSE, cache |-> cache, reads |-> reads]
            ELSE LET before == F[i - 1]
                     r == get_sha256(before.cache, lookups[i])
                 IN  IF stop /\ before.raised THEN before
                     ELSE [raised |-> r.raised, cache |-> r.cache,
                           reads |-> IF before.cache[lookups[i]] = None
                                     THEN [before.reads EXCEPT ![lookups[i]] = @ + 1]
                                     ELSE before.reads]
    IN  F[Len(lookups)].reads

\* HashCalculator.get_phash (use_cache = True): None without imagehash or for a
\* path that is no image; the cached fingerprint if there is one; else the
\* fingerprint of the decoded image, stored in the cache; None (and nothing
\* stored) when the image cannot be decoded.
get_phash(cache, p) ==
    IF ~IMAGEHASH_AVAILABLE \/ ~is_supported_image(p)
    THEN [value |-> <<>>, cache |-> cache]
    ELSE IF cache[p] # <<>>
    THEN [value |-> cache[p], cache |-> cache]
    ELSE IF disk[p].phash = <<>>
    THEN [value |-> <<>>, cache |-> cache]
    ELSE [value |-> disk[p].phash, cache |-> [cache EXCEPT ![p] = disk[p].phash]]

\* HashCalculator.get_phash with use_cache = False: the test of line 68 fails
\* whatever the cache holds; a failure to decode leaves the cache as it is
get_phash_bypass(cache, p) ==
    IF ~IMAGEHASH_AVAILABLE \/ ~is_supported_image(p)
    THEN [value |-> <<>>, cache |-> cache]
    ELSE IF disk[p].phash = <<>>
    THEN [value |-> <<>>, cache |-> cache]
    ELSE [value |-> disk[p].phash, cache |-> [cache EXCEPT ![p] = disk[p].phash]]

\* HashCalculator.hamming_distance: the number of differing bits; 0 without
\* imagehash; 999 when the subtraction raises (fingerprints of different shapes)
\* (hamming_distance_zero: the answer given without imagehash, always)
hamming_distance_zero(hash1, hash2) == 0

\* (hamming_distance_plus_one: equal strings are one apart)
hamming_distance_plus_one(hash1, hash2) ==
    IF ~IMAGEHASH_AVAILABLE THEN 0
    ELSE IF Len(hash1) # Len(hash2) THEN INCOMPARABLE
    ELSE Cardinality({i \in DOMAIN hash1 : hash1[i] # hash2[i]}) + 1

hamming_distance(hash1, hash2) ==
    IF ~IMAGEHASH_AVAILABLE THEN 0
    ELSE IF Len(hash1) # Len(hash2) THEN INCOMPARABLE
    ELSE Cardinality({i \in DOMAIN hash1 : hash1[i] # hash2[i]})

\* --------------------------------------------------------- select_winner
\* Python's truth value of a dimension: None and 0 are false
Truthy(x) == x # None /\ x # 0

\* sorted(files): ascending paths (insertion sort; the result is the same
\* for any sorting algorithm, paths being compared as wholes)
InsertPath(x, s) ==
    LET k == Cardinality({i \in DOMAIN s : s[i] <= x})
    IN  SubSeq(s, 1, k) \o <<x>> \o SubSeq(s, k + 1, Len(s))

sorted(s) ==
    LET F[i \in 0..Len(s)] == IF i = 0 THEN <<>> ELSE InsertPath(s[i], F[i - 1])
    IN  F[Len(s)]

\* the dictionary select_winner collects for one file
FileMetadata(p) ==
    LET width == get_image_dimensions(p)[1]
        height == get_image_dimensions(p)[2]
    IN  [path |-> p, width |-> width, height |-> height,
         resolution |-> IF Truthy(width) /\ Truthy(height) THEN width * height ELSE 0,
         size |-> get_file_size(p)]

\* the sort key (-resolution, -size, path), compared as Python compares tuples
KeyLess_ascending(x, y) ==
    \/ x.resolution < y.resolution
    \/ x.resolution = y.resolution /\ x.size > y.size
    \/ x.resolution = y.resolution /\ x.size = y.size /\ x.path < y.path

KeyLess(x, y) ==
    \/ x.resolution > y.resolution
    \/ x.resolution = y.resolution /\ x.size > y.size
    \/ x.resolution = y.resolution /\ x.size = y.size /\ x.path < y.path

\* list.sort(key = ...): stable, an element goes after every element not greater
InsertByKey(x, s) ==
    LET k == Cardinality({i \in DOMAIN s : ~KeyLess(x, s[i])})
    IN  SubSeq(s, 1, k) \o <<x>> \o SubSeq(s, k + 1, Len(s))

sort_by_key(s) ==
    LET F[i \in 0..Len(s)] == IF i = 0 THEN <<>> ELSE InsertByKey(s[i], F[i - 1])
    IN  F[Len(s)]

\* file_metadata after the sort: the candidates, ranked.
\* (RankedMetadata_inputorder: the ranking without the sort of the paths and
\* without the path in the key)
RankedMetadata_inputorder(fl) ==
    LET less(x, y) == \/ x.resolution > y.resolution
                      \/ x.resolution = y.resolution /\ x.size > y.size
        ins(x, s) == LET k == Cardinality({i \in DOMAIN s : ~less(x, s[i])})
                     IN  SubSeq(s, 1, k) \o <<x>> \o SubSeq(s, k + 1, Len(s))
        F[i \in 0..Len(fl)] ==
            IF i = 0 THEN <<>> ELSE ins(FileMetadata(fl[i]), F[i - 1])
    IN  F[Len(fl)]

RankedMetadata(fl) ==
    LET sorted_files == sorted(fl)
    IN  sort_by_key([i \in DOMAIN fl |-> FileMetadata(sorted_files[i])])

\* the reason: the first criterion on which the first two of the ranking differ
Reason_size_first(ranked) ==
    IF ranked[1].size > ranked[2].size
    THEN <<"largest file size", ranked[1].size>>
    ELSE IF ranked[1].resolution > ranked[2].resolution
    THEN <<"highest resolution", ranked[1].width, ranked[1].height>>
    ELSE <<"alphabetically first path">>

Reason(ranked) ==
    IF ranked[1].resolution > ranked[2].resolution
    THEN <<"highest resolution", ranked[1].width, ranked[1].height>>
    ELSE IF ranked[1].size > ranked[2].size
    THEN <<"largest file size", ranked[1].size>>
    ELSE <<"alphabetically first path">>

\* Deduplicator.select_winner: <<winner, reason>>
select_winner(fl) ==
    IF Len(fl) = 1
    THEN <<fl[1], <<"only file in group">>>>
    ELSE LET file_metadata == RankedMetadata(fl)
         IN  <<file_metadata[1].path, Reason(file_metadata)>>

\* ------------------------------------------------- find_exact_duplicates
\* hash_to_files[file_hash].append(file_path): the buckets in insertion order
AddToBucket(buckets, key, p) ==
    IF \E i \in DOMAIN buckets : buckets[i].key = key
    THEN LET i == CHOOSE j \in DOMAIN buckets : buckets[j].key = key
         IN  [buckets EXCEPT ![i].group = Append(@, p)]
    ELSE Append(buckets, [key |-> key, group |-> <<p>>])

\* the values of hash_to_files that hold more than one file
ExactFilter_all(buckets) ==
    [i \in DOMAIN buckets |-> buckets[i].group]

ExactFilter(buckets) ==
    LET kept == SelectSeq(buckets, LAMBDA b : Len(b.group) > 1)
    IN  [i \in DOMAIN kept |-> kept[i].group]

\* Deduplicator.find_exact_duplicates: a file whose digest raises is skipped
find_exact_duplicates(fl, cache) ==
    LET F[i \in 0..Len(fl)] ==
            IF i = 0 THEN [buckets |-> <<>>, cache |-> cache]
            ELSE LET before == F[i - 1]
                     r == get_sha256(before.cache, fl[i])
                 IN  IF r.raised THEN before
                     ELSE [buckets |-> AddToBucket(before.buckets, r.value, fl[i]),
                           cache |-> r.cache]
        scanned == F[Len(fl)]
    IN  [groups |-> ExactFilter(scanned.buckets), cache |-> scanned.cache]

\* -------------------------------------------- find_perceptual_duplicates
\* file_hashes[file_path] = phash: a dict keeps the place of a key already in it
PutHash(fh, p, h) ==
    IF \E i \in DOMAIN fh : fh[i].path = p
    THEN [i \in DOMAIN fh |-> IF fh[i].path = p THEN [path |-> p, phash |-> h] ELSE fh[i]]
    ELSE Append(fh, [path |-> p, phash |-> h])

\* the first half of find_perceptual_duplicates: the fingerprints of the images
compute_file_hashes(fl, cache) ==
    LET image_files == SelectSeq(fl, is_supported_image)
        F[i \in 0..Len(image_files)] ==
            IF i = 0 THEN [file_hashes |-> <<>>, cache |-> cache]
            ELSE LET before == F[i - 1]
                     r == get_phash(before.cache, image_files[i])
                 IN  IF r.value # <<>>
                     THEN [file_hashes |-> PutHash(before.file_hashes, image_files[i], r.value),
                           cache |-> r.cache]
                     ELSE [file_hashes |-> before.file_hashes, cache |-> r.cache]
    IN  F[Len(image_files)]

\* the inner loop: the files after the seed, not yet processed, within the threshold
\* (ScanFromSeed_chain: a file is compared with the last file of the group,
\* not with the seed; ScanFromSeed_strict: the comparison with the threshold
\* is strict)
ScanFromSeed_strict(fh, i, processed) ==
    LET F[j \in i..Len(fh)] ==
            IF j = i THEN [group |-> <<fh[i].path>>, min_distance |-> None]
            ELSE IF fh[j].path \in processed THEN F[j - 1]
            ELSE LET distance == hamming_distance(fh[i].phash, fh[j].phash)
                 IN  IF distance < phash_threshold
                     THEN [group |-> Append(F[j - 1].group, fh[j].path),
                           min_distance |->
                               IF F[j - 1].min_distance = None \/ distance < F[j - 1].min_distance
                               THEN distance ELSE F[j - 1].min_distance]
                     ELSE F[j - 1]
    IN  F[Len(fh)]

ScanFromSeed_chain(fh, i, processed) ==
    LET F[j \in i..Len(fh)] ==
            IF j = i THEN [group |-> <<fh[i].path>>, last |-> fh[i].phash, min_distance |-> None]
            ELSE IF fh[j].path \in processed THEN F[j - 1]
            ELSE LET distance == hamming_distance(F[j - 1].last, fh[j].phash)
                 IN  IF distance <= phash_threshold
                     THEN [group |-> Append(F[j - 1].group, fh[j].path),
                           last |-> fh[j].phash,
                           min_distance |->
                               IF F[j - 1].min_distance = None \/ distance < F[j - 1].min_distance
                               THEN distance ELSE F[j - 1].min_distance]
                     ELSE F[j - 1]
    IN  F[Len(fh)]

\* (ScanFromSeed_skip: the scan starts at the second file after the seed;
\* ScanFromSeed_loose: a file one bit beyond the threshold is taken too)
ScanFromSeed_skip(fh, i, processed) ==
    LET F[j \in i..Len(fh)] ==
            IF j = i THEN [group |-> <<fh[i].path>>, min_distance |-> None]
            ELSE LET before == F[j - 1]
                     distance == hamming_distance(fh[i].phash, fh[j].phash)
                 IN  IF fh[j].path \in processed \/ j = i + 1 THEN before
                     ELSE IF distance <= phash_threshold
                     THEN [group |-> Append(before.group, fh[j].path),
                           min_distance |->
                               IF before.min_distance = None \/ distance < before.min_distance
                               THEN distance ELSE before.min_distance]
                     ELSE before
    IN  F[Len(fh)]

ScanFromSeed_loose(fh, i, processed) ==
    LET F[j \in i..Len(fh)] ==
            IF j = i THEN [group |-> <<fh[i].path>>, min_distance |-> None]
            ELSE LET before == F[j - 1]
                     distance == hamming_distance(fh[i].phash, fh[j].phash)
                 IN  IF fh[j].path \in processed THEN before
                     ELSE IF distance <= phash_threshold + 1
                     THEN [group |-> Append(before.group, fh[j].path),
                           min_distance |->
                               IF before.min_distance = None \/ distance < before.min_distance
                               THEN distance ELSE before.min_distance]
                     ELSE before
    IN  F[Len(fh)]

ScanFromSeed(fh, i, processed) ==
    LET F[j \in i..Len(fh)] ==
            IF j = i THEN [group |-> <<fh[i].path>>, min_distance |-> None]
            ELSE LET before == F[j - 1]
                     distance == hamming_distance(fh[i].phash, fh[j].phash)
                 IN  IF fh[j].path \in processed THEN before
                     ELSE IF distance <= phash_threshold
                     THEN [group |-> Append(before.group, fh[j].path),
                           min_distance |->
                               IF before.min_distance = None \/ distance < before.min_distance
                               THEN distance ELSE before.min_distance]
                     ELSE before
    IN  F[Len(fh)]

\* the outer loop: every file not yet processed opens a group as its seed
RECURSIVE ClusterFrom(_, _, _, _)
ClusterFrom(fh, i, processed, groups) ==
    IF i > Len(fh) THEN groups
    ELSE IF fh[i].path \in processed THEN ClusterFrom(fh, i + 1, processed, groups)
    ELSE LET scan == ScanFromSeed(fh, i, processed)
         IN  IF Len(scan.group) > 1
             THEN ClusterFrom(fh, i + 1, processed \cup Range(scan.group),
                      Append(groups,
                          [group_files |-> scan.group,
                           distance |-> IF scan.min_distance = None THEN 0
                                        ELSE scan.min_distance]))
             ELSE ClusterFrom(fh, i + 1, processed, groups)

cluster_file_hashes(fh) == ClusterFrom(fh, 1, {}, <<>>)

\* ------------------------------------------------ create_duplicate_groups
\* Deduplicator._get_file_metadata: the digest is not guarded
get_file_metadata(cache, p) ==
    LET r == get_sha256(cache, p)
    IN  [raised |-> r.raised, cache |-> r.cache,
         md |-> [path |-> p, sha256 |-> r.value,
                 width |-> get_image_dimensions(p)[1],
                 height |-> get_image_dimensions(p)[2],
                 size |-> get_file_size(p)]]

\* [self._get_file_metadata(f) for f in group.duplicates]
get_duplicate_metadata(cache, dups) ==
    LET F[i \in 0..Len(dups)] ==
            IF i = 0 THEN [raised |-> FALSE, cache |-> cache, mds |-> <<>>]
            ELSE LET before == F[i - 1]
                     r == get_file_metadata(before.cache, dups[i])
                 IN  IF before.raised THEN before
                     ELSE [raised |-> r.raised, cache |-> r.cache,
                           mds |-> IF r.raised THEN before.mds ELSE Append(before.mds, r.md)]
    IN  F[Len(dups)]

\* group_id += 1
NextGroupId_same(gid) == gid

NextGroupId(gid) == gid + 1

\* group.duplicates = [f for f in group_files if f != winner]
\* (GroupDuplicates_all keeps the winner; GroupDuplicates_first drops its first
\* occurrence alone, as list.remove would)
GroupDuplicates_all(group_files, winner) == group_files

GroupDuplicates_first(group_files, winner) ==
    LET k == CHOOSE i \in DOMAIN group_files :
                 /\ group_files[i] = winner
                 /\ \A j \in 1..(i - 1) : group_files[j] # winner
    IN  SubSeq(group_files, 1, k - 1) \o SubSeq(group_files, k + 1, Len(group_files))

GroupDuplicates(group_files, winner) ==
    SelectSeq(group_files, LAMBDA f : f # winner)

\* the body of the loops over exact_groups and perceptual_groups
BuildGroup(gid, detection_type, group_files, distance, cache) ==
    LET chosen == select_winner(group_files)
        winner == chosen[1]
        duplicates == GroupDuplicates(group_files, winner)
        wm == get_file_metadata(cache, winner)
        dm == get_duplicate_metadata(wm.cache, duplicates)
    IN  [raised |-> wm.raised \/ dm.raised,
         cache |-> IF wm.raised THEN wm.cache ELSE dm.cache,
         group |-> [group_id |-> gid, detection_type |-> detection_type,
                    winner |-> winner, duplicates |-> duplicates,
                    reason |-> chosen[2], phash_distance |-> distance,
                    winner_metadata |-> wm.md, duplicate_metadata |-> dm.mds]]

\* self.duplicate_groups.append(group)
\* (AppendGroup_overwrite: the group takes the place of the last group of the list)
AppendGroup_overwrite(groups, group) ==
    IF groups = <<>> THEN <<group>>
    ELSE [groups EXCEPT ![Len(groups)] = group]

AppendGroup(groups, group) == Append(groups, group)

\* processed_files: the winner and the duplicates of every group so far
\* (ProcessedFiles_winners: the winners alone)
ProcessedFiles_winners(groups) == {groups[i].winner : i \in DOMAIN groups}

ProcessedFiles(groups) ==
    UNION {{groups[i].winner} \cup Range(groups[i].duplicates) : i \in DOMAIN groups}

\* remaining_files = [f for f in files if f not in processed_files]
RemainingFiles_all(fl, processed) == fl

RemainingFiles(fl, processed) ==
    SelectSeq(fl, LAMBDA f : f \notin processed)

\* self.duplicate_groups = [] at the start of a call
ResetGroups_keep(groups) == groups

ResetGroups(groups) == <<>>

\* ------------------------------------------------------------ the views
get_all_winners == [i \in DOMAIN duplicate_groups |-> duplicate_groups[i].winner]

get_all_duplicates ==
    LET F[i \in 0..Len(duplicate_groups)] ==
            IF i = 0 THEN <<>> ELSE F[i - 1] \o duplicate_groups[i].duplicates
    IN  F[Len(duplicate_groups)]

get_unique_files(all_files) ==
    LET all_dupes == Range(get_all_winners \o get_all_duplicates)
    IN  SelectSeq(all_files, LAMBDA f : f \notin all_dupes)

\* ----------------------------------------------------------------- Init
EmptySha256Cache == [p \in Paths |-> None]

EmptyPhashCache == [p \in Paths |-> <<>>]

\* no method of the HashCalculator has been called directly
NoCall == [op |-> "none"]

\* no file has been read for its digest
NoReads == [p \in Paths |-> 0]

\* find_perceptual_duplicates has not been entered
NoLocals ==
    /\ hashed = 0
    /\ seed_index = 0
    /\ scan_index = 0
    /\ seed_group = <<>>
    /\ min_distance = None
    /\ processed_files = {}
    /\ comparisons = <<>>

\* the engine is called directly: cli.main is not running
NoCli ==
    /\ inputs = <<>>
    /\ action = "dry-run"
    /\ group_by_year = FALSE
    /\ exit_status = None
    /\ reports = 0
    /\ handed = <<>>

\* nothing is copied or moved
NoCopying ==
    /\ sources = {}
    /\ dst_dir = <<>>
    /\ returned = <<>>

\* Deduplicator(mode, phash_threshold), before the first call
InitEngine ==
    /\ NoLocals
    /\ NoCli
    /\ NoCopying
    /\ sha256_cache = EmptySha256Cache
    /\ phash_cache = EmptyPhashCache
    /\ duplicate_groups = <<>>
    /\ group_id = 0
    /\ exact_groups = <<>>
    /\ file_hashes = <<>>
    /\ perceptual_groups = <<>>
    /\ run = [call |-> 1, instance |-> 1]
    /\ prev = <<>>
    /\ sel = <<>>
    /\ sha256_reads = NoReads
    /\ ret = NoCall

\* The input is any list of at most MaxFiles scanned paths, a path any number
\* of times; the bytes of at most MaxUnreadable of them cannot be read.
Init ==
    /\ mode \in Modes
    /\ phash_threshold \in 0..MaxThreshold
    /\ files \in SeqsUpTo(Paths, MaxFiles)
    /\ disk = Disk
    /\ unreadable \in {b \in SUBSET Range(files) : Cardinality(b) <= MaxUnreadable}
    /\ InitEngine
    /\ pc = "idle"

world == <<mode, phash_threshold, files, disk, unreadable>>

\* -------------------------------------------------------------- actions
ExactModes == {"exact", "exact+perceptual"}

PerceptualModes == {"perceptual", "exact+perceptual"}

\* where the call goes when the loop over exact_groups is over (or skipped)
\* (AfterExact_always: without the test of the mode at line 208)
AfterExact_always == "perceptual_hash"

AfterExact == IF mode \in PerceptualModes THEN "perceptual_hash" ELSE "return"

\* create_duplicate_groups, lines 185-188: the call starts
Begin ==
    /\ pc = "idle"
    /\ duplicate_groups' = ResetGroups(duplicate_groups)
    /\ group_id' = 0
    /\ pc' = IF mode \in ExactModes THEN "exact_scan" ELSE AfterExact
    /\ sha256_reads' = NoReads
    /\ UNCHANGED <<world, locals, cli, copying, sha256_cache, phash_cache, exact_groups, file_hashes,
                   perceptual_groups, run, prev, sel, ret>>

\* line 190: exact_groups = self.find_exact_duplicates(files)
FindExactDuplicates ==
    /\ pc = "exact_scan"
    /\ LET r == find_exact_duplicates(files, sha256_cache)
       IN  /\ exact_groups' = r.groups
           /\ sha256_cache' = r.cache
           /\ pc' = IF r.groups = <<>> THEN AfterExact ELSE "exact_groups"
    /\ sha256_reads' = CountReads(files, sha256_cache, sha256_reads, FALSE)
    /\ UNCHANGED <<world, locals, cli, copying, phash_cache, duplicate_groups, group_id, file_hashes,
                   perceptual_groups, run, prev, sel, ret>>

\* lines 192-206: one iteration of the loop over exact_groups
ExactGroup ==
    /\ pc = "exact_groups"
    /\ LET b == BuildGroup(group_id, "exact", Head(exact_groups), None, sha256_cache)
       IN  /\ sha256_cache' = b.cache
           /\ sha256_reads' = CountReads(<<b.group.winner>> \o b.group.duplicates,
                                         sha256_cache, sha256_reads, TRUE)
           /\ group_id' = NextGroupId(group_id)
           /\ IF b.raised
              THEN /\ pc' = "raised"
                   /\ UNCHANGED <<duplicate_groups, exact_groups>>
              ELSE /\ duplicate_groups' = AppendGroup(duplicate_groups, b.group)
                   /\ exact_groups' = Tail(exact_groups)
                   /\ pc' = IF Tail(exact_groups) = <<>> THEN AfterExact ELSE "exact_groups"
    /\ UNCHANGED <<world, locals, cli, copying, phash_cache, file_hashes, perceptual_groups, run, prev, sel, ret>>

\* lines 210-215 and find_perceptual_duplicates, lines 79-89: the fingerprints
\* of the remaining images
ComputeFingerprints ==
    /\ pc = "perceptual_hash"
    /\ LET remaining_files == RemainingFiles(files, ProcessedFiles(duplicate_groups))
           r == compute_file_hashes(remaining_files, phash_cache)
       IN  /\ file_hashes' = r.file_hashes
           /\ phash_cache' = r.cache
    /\ pc' = "perceptual_cluster"
    /\ UNCHANGED <<world, locals, cli, copying, sha256_cache, duplicate_groups, group_id, exact_groups,
                   perceptual_groups, run, prev, sel, sha256_reads, ret>>

\* find_perceptual_duplicates, lines 93-122: the clustering
ClusterFingerprints ==
    /\ pc = "perceptual_cluster"
    /\ perceptual_groups' = cluster_file_hashes(file_hashes)
    /\ pc' = IF perceptual_groups' = <<>> THEN "return" ELSE "perceptual_groups"
    /\ UNCHANGED <<world, locals, cli, copying, sha256_cache, phash_cache, duplicate_groups, group_id,
                   exact_groups, file_hashes, run, prev, sel, sha256_reads, ret>>

\* lines 218-233: one iteration of the loop over perceptual_groups
PerceptualGroup ==
    /\ pc = "perceptual_groups"
    /\ LET g == Head(perceptual_groups)
           b == BuildGroup(group_id, "perceptual", g.group_files, g.distance, sha256_cache)
       IN  /\ sha256_cache' = b.cache
           /\ sha256_reads' = CountReads(<<b.group.winner>> \o b.group.duplicates,
                                         sha256_cache, sha256_reads, TRUE)
           /\ group_id' = NextGroupId(group_id)
           /\ IF b.raised
              THEN /\ pc' = "raised"
                   /\ UNCHANGED <<duplicate_groups, perceptual_groups>>
              ELSE /\ duplicate_groups' = AppendGroup(duplicate_groups, b.group)
                   /\ perceptual_groups' = Tail(perceptual_groups)
                   /\ pc' = IF Tail(perceptual_groups) = <<>> THEN "return"
                            ELSE "perceptual_groups"
    /\ UNCHANGED <<world, locals, cli, copying, phash_cache, exact_groups, file_hashes, run, prev, sel, ret>>

\* line 236: return self.duplicate_groups
Return ==
    /\ pc = "return"
    /\ pc' = "done"
    /\ UNCHANGED <<world, locals, cli, copying, sha256_cache, phash_cache, duplicate_groups, group_id,
                   exact_groups, file_hashes, perceptual_groups, run, prev, sel,
                   sha256_reads, ret>>

Next ==
    \/ Begin
    \/ FindExactDuplicates
    \/ ExactGroup
    \/ ComputeFingerprints
    \/ ClusterFingerprints
    \/ PerceptualGroup
    \/ Return

Spec == Init /\ [][Next]_vars

\* ------------------------------------------- a second call on the same input
\* create_duplicate_groups is called again on the Deduplicator that has just
\* returned: its caches and its duplicate_groups are as the first call left them
CallAgain ==
    /\ pc = "done"
    /\ run.call = 1
    /\ run' = [call |-> 2, instance |-> 1]
    /\ prev' = duplicate_groups
    /\ pc' = "idle"
    /\ UNCHANGED <<world, locals, cli, copying, sha256_cache, phash_cache, duplicate_groups, group_id,
                   exact_groups, file_hashes, perceptual_groups, sel, sha256_reads, ret>>

\* a new Deduplicator(mode, phash_threshold) is built and called on the same input
CallFresh ==
    /\ pc = "done"
    /\ run.call = 1
    /\ run' = [call |-> 2, instance |-> 2]
    /\ prev' = duplicate_groups
    /\ sha256_cache' = EmptySha256Cache
    /\ phash_cache' = EmptyPhashCache
    /\ duplicate_groups' = <<>>
    /\ pc' = "idle"
    /\ UNCHANGED <<world, locals, cli, copying, group_id, exact_groups, file_hashes, perceptual_groups, sel,
                   sha256_reads, ret>>

NextRerun ==
    \/ Begin
    \/ FindExactDuplicates
    \/ ExactGroup
    \/ ComputeFingerprints
    \/ ClusterFingerprints
    \/ PerceptualGroup
    \/ Return
    \/ CallAgain
    \/ CallFresh

SpecRerun == Init /\ [][NextRerun]_vars

\* ------------------------------------------------ select_winner on its own
\* what the accessors may report for a candidate: no dimensions or a width
\* and a height, and a size
CandidateFiles == {
    [suffix |-> ".jpg", sha |-> 0, width |-> None, height |-> None, size |-> 1, phash |-> <<>>],
    [suffix |-> ".jpg", sha |-> 0, width |-> None, height |-> None, size |-> 2, phash |-> <<>>],
    [suffix |-> ".jpg", sha |-> 0, width |-> 1,    height |-> 2,    size |-> 2, phash |-> <<>>],
    [suffix |-> ".jpg", sha |-> 0, width |-> 2,    height |-> 1,    size |-> 2, phash |-> <<>>],
    [suffix |-> ".jpg", sha |-> 0, width |-> 2,    height |-> 2,    size |-> 1, phash |-> <<>>],
    [suffix |-> ".jpg", sha |-> 0, width |-> 2,    height |-> 2,    size |-> 2, phash |-> <<>>] }

\* select_winner compares paths by their order alone: MaxFiles paths give a
\* list of MaxFiles candidates every order
CandidatePaths == 1..MaxFiles

SelectWorlds(fl) ==
    {[p \in Paths |-> IF p \in Range(fl) THEN m[p] ELSE Disk[p]] :
        m \in [Range(fl) -> CandidateFiles]}

InitSelect ==
    /\ mode = "exact"
    /\ phash_threshold = 0
    /\ files \in SeqsUpTo(CandidatePaths, MaxFiles) \ {<<>>}
    /\ disk \in SelectWorlds(files)
    /\ unreadable = {}
    /\ InitEngine
    /\ pc = "select"

\* the orders in which the same candidates can be handed over
RECURSIVE Reorderings(_)
Reorderings(s) ==
    IF Len(s) <= 1 THEN {s}
    ELSE UNION {{<<s[i]>> \o t :
                    t \in Reorderings(SubSeq(s, 1, i - 1) \o SubSeq(s, i + 1, Len(s)))} :
                i \in DOMAIN s}

\* select_winner(files), and select_winner on the same candidates in every order
SelectWinner ==
    /\ pc = "select"
    /\ sel' = [result |-> select_winner(files),
               reordered |-> {select_winner(other) : other \in Reorderings(files)}]
    /\ pc' = "selected"
    /\ UNCHANGED <<world, locals, cli, copying, sha256_cache, phash_cache, duplicate_groups, group_id,
                   exact_groups, file_hashes, perceptual_groups, run, prev,
                   sha256_reads, ret>>

NextSelect == SelectWinner

SpecSelect == InitSelect /\ [][NextSelect]_vars

\* ------------------------------- an identical pair among similar images
\* e.jpg can be decoded here: an image 1x1, one bit of fingerprint away from
\* a.jpg and from f.jpg, two bits away from b.jpg and d.jpg
DecodableDisk ==
    [Disk EXCEPT ![5] = [suffix |-> ".jpg", sha |-> 4, width |-> 1, height |-> 1,
                         size |-> 1, phash |-> <<1, 1>>]]

\* the byte-identical files of the directory
IdenticalPair ==
    {p \in Paths : \E q \in Paths \ {p} : Disk[q].sha = Disk[p].sha}

\* the two identical files and one to 1 + MaxOthers of the other files, each
\* once, in any order
MixedInputs ==
    {fl \in SeqsUpTo(Paths, 3 + MaxOthers) :
        /\ Len(fl) >= 3
        /\ IdenticalPair \subseteq Range(fl)
        /\ \A i, j \in DOMAIN fl : i # j => fl[i] # fl[j]}

InitMixed ==
    /\ mode = "exact+perceptual"
    /\ phash_threshold \in 0..MaxThreshold
    /\ files \in MixedInputs
    /\ disk = DecodableDisk
    /\ unreadable = {}
    /\ InitEngine
    /\ pc = "idle"

SpecMixed == InitMixed /\ [][NextRerun]_vars

\* ------------------------------------------- hamming_distance on its own
\* fingerprint strings of 1 to MaxBits bits
Fingerprints == UNION {[1..n -> {0, 1}] : n \in 1..MaxBits}

\* hamming_distance is handed any two fingerprint strings, those of the first
\* two files; find_perceptual_duplicates then clusters the two
InitHamming ==
    /\ mode = "perceptual"
    /\ phash_threshold \in 0..MaxThreshold
    /\ files = <<1, 2>>
    /\ disk = Disk
    /\ unreadable = {}
    /\ sha256_cache = EmptySha256Cache
    /\ phash_cache = EmptyPhashCache
    /\ duplicate_groups = <<>>
    /\ group_id = 0
    /\ exact_groups = <<>>
    /\ \E hash1, hash2 \in Fingerprints :
          file_hashes = <<[path |-> 1, phash |-> hash1], [path |-> 2, phash |-> hash2]>>
    /\ perceptual_groups = <<>>
    /\ run = [call |-> 1, instance |-> 1]
    /\ prev = <<>>
    /\ sel = <<>>
    /\ sha256_reads = NoReads
    /\ ret = NoCall
    /\ NoLocals
    /\ NoCli
    /\ NoCopying
    /\ pc = "compare"

\* HashCalculator.hamming_distance(hash1, hash2): a number comes back, whatever
\* the strings
HammingDistance ==
    /\ pc = "compare"
    /\ ret' = [op |-> "hamming_distance", raised |-> FALSE,
               value |-> hamming_distance(file_hashes[1].phash, file_hashes[2].phash)]
    /\ pc' = "perceptual_cluster"
    /\ UNCHANGED <<world, locals, cli, copying, sha256_cache, phash_cache, duplicate_groups, group_id,
                   exact_groups, file_hashes, perceptual_groups, run, prev, sel,
                   sha256_reads>>

NextHamming ==
    \/ HammingDistance
    \/ ClusterFingerprints

SpecHamming == InitHamming /\ [][NextHamming]_vars

\* --------------------------------------- the HashCalculator on its own
\* the paths the calculator is asked about
HashedPaths == 1..MaxHashed

\* what is at path p after the file was overwritten with the bytes of the next
\* file of the directory (the path keeps its suffix), or restored
Overwritten(p) ==
    IF disk[p] = Disk[p]
    THEN [Disk[p + 1] EXCEPT !.suffix = Disk[p].suffix]
    ELSE Disk[p]

InitHash ==
    /\ mode = "exact"
    /\ phash_threshold = 0
    /\ files = <<>>
    /\ disk = Disk
    /\ unreadable \in {b \in SUBSET HashedPaths : Cardinality(b) <= MaxUnreadable}
    /\ InitEngine
    /\ pc = "hash"

\* hash_calc.get_sha256(p, use_cache)
GetSha256(p, use_cache) ==
    /\ pc = "hash"
    /\ LET r == IF use_cache THEN get_sha256(sha256_cache, p)
                ELSE get_sha256_bypass(sha256_cache, p)
       IN  /\ sha256_cache' = r.cache
           /\ ret' = [op |-> "get_sha256", path |-> p, use_cache |-> use_cache,
                      raised |-> r.raised, value |-> r.value]
    /\ UNCHANGED <<world, locals, cli, copying, phash_cache, duplicate_groups, group_id, exact_groups,
                   file_hashes, perceptual_groups, pc, run, prev, sel, sha256_reads>>

\* hash_calc.get_phash(p, use_cache)
GetPhash(p, use_cache) ==
    /\ pc = "hash"
    /\ LET r == IF use_cache THEN get_phash(phash_cache, p)
                ELSE get_phash_bypass(phash_cache, p)
       IN  /\ phash_cache' = r.cache
           /\ ret' = [op |-> "get_phash", path |-> p, use_cache |-> use_cache,
                      raised |-> FALSE, value |-> r.value]
    /\ UNCHANGED <<world, locals, cli, copying, sha256_cache, duplicate_groups, group_id, exact_groups,
                   file_hashes, perceptual_groups, pc, run, prev, sel, sha256_reads>>

\* between two calls the file at p is overwritten; the calculator is not told
ModifyFile(p) ==
    /\ pc = "hash"
    /\ disk' = [disk EXCEPT ![p] = Overwritten(p)]
    /\ ret' = NoCall
    /\ UNCHANGED <<mode, phash_threshold, files, unreadable, sha256_cache,
                   locals, cli, copying, phash_cache, duplicate_groups, group_id, exact_groups,
                   file_hashes, perceptual_groups, pc, run, prev, sel, sha256_reads>>

NextHash ==
    \E p \in HashedPaths :
        \/ \E use_cache \in BOOLEAN : GetSha256(p, use_cache)
        \/ \E use_cache \in BOOLEAN : GetPhash(p, use_cache)
        \/ ModifyFile(p)

SpecHash == InitHash /\ [][NextHash]_vars

\* ------------------------- find_perceptual_duplicates, one step at a time
\* The perceptual pass of create_duplicate_groups with every iteration of the
\* loops of find_perceptual_duplicates a step of its own; the other passes as
\* above.

\* lines 210-215 and 79: the images among the files no exact group holds
image_files ==
    SelectSeq(RemainingFiles(files, ProcessedFiles(duplicate_groups)), is_supported_image)

\* the for loop of lines 84-87 is over when every image has been handed to
\* get_phash (AllHashed_early: it is left after the second image)
AllHashed_early(k, images) == k >= 2 \/ k = Len(images)

AllHashed(k, images) == k = Len(images)

\* lines 210-215, 76-83: find_perceptual_duplicates is entered
EnterPerceptual ==
    /\ pc = "perceptual_hash"
    /\ file_hashes' = <<>>
    /\ hashed' = 0
    /\ seed_index' = 0
    /\ scan_index' = 0
    /\ seed_group' = <<>>
    /\ min_distance' = None
    /\ processed_files' = {}
    /\ comparisons' = <<>>
    /\ perceptual_groups' = <<>>
    /\ pc' = "hash_images"
    /\ UNCHANGED <<world, cli, copying, sha256_cache, phash_cache, duplicate_groups,
                   group_id, exact_groups, run, prev, sel, sha256_reads, ret>>

\* lines 84-87: one iteration of the loop over image_files
HashImage ==
    /\ pc = "hash_images"
    /\ ~AllHashed(hashed, image_files)
    /\ LET file_path == image_files[hashed + 1]
           r == get_phash(phash_cache, file_path)
       IN  /\ phash_cache' = r.cache
           /\ file_hashes' = IF r.value # <<>> THEN PutHash(file_hashes, file_path, r.value)
                             ELSE file_hashes
    /\ hashed' = hashed + 1
    /\ UNCHANGED <<world, cli, copying, sha256_cache, duplicate_groups, group_id,
                   exact_groups, perceptual_groups, pc, run, prev, sel, sha256_reads,
                   ret, seed_index, scan_index, seed_group, min_distance,
                   processed_files, comparisons>>

\* lines 93-96: processed, duplicate_groups and files_list are set up
StartClustering ==
    /\ pc = "hash_images"
    /\ AllHashed(hashed, image_files)
    /\ processed_files' = {}
    /\ perceptual_groups' = <<>>
    /\ seed_index' = 1
    /\ pc' = "seed"
    /\ UNCHANGED <<world, cli, copying, sha256_cache, phash_cache, duplicate_groups,
                   group_id, exact_groups, file_hashes, run, prev, sel, sha256_reads,
                   ret, hashed, scan_index, seed_group, min_distance, comparisons>>

\* lines 97-99: file1 is in processed
SkipSeed ==
    /\ pc = "seed"
    /\ seed_index <= Len(file_hashes)
    /\ file_hashes[seed_index].path \in processed_files
    /\ seed_index' = seed_index + 1
    /\ UNCHANGED <<world, cli, copying, sha256_cache, phash_cache, duplicate_groups,
                   group_id, exact_groups, file_hashes, perceptual_groups, pc, run,
                   prev, sel, sha256_reads, ret, hashed, scan_index, seed_group,
                   min_distance, processed_files, comparisons>>

\* lines 101-103: file1 opens a group
OpenSeed ==
    /\ pc = "seed"
    /\ seed_index <= Len(file_hashes)
    /\ file_hashes[seed_index].path \notin processed_files
    /\ seed_group' = <<file_hashes[seed_index].path>>
    /\ min_distance' = None
    /\ scan_index' = seed_index + 1
    /\ pc' = "scan"
    /\ UNCHANGED <<world, cli, copying, sha256_cache, phash_cache, duplicate_groups,
                   group_id, exact_groups, file_hashes, perceptual_groups, run, prev,
                   sel, sha256_reads, ret, hashed, seed_index, processed_files,
                   comparisons>>

\* lines 105-107: file2 is in processed
SkipProcessed ==
    /\ pc = "scan"
    /\ scan_index <= Len(file_hashes)
    /\ file_hashes[scan_index].path \in processed_files
    /\ scan_index' = scan_index + 1
    /\ UNCHANGED <<world, cli, copying, sha256_cache, phash_cache, duplicate_groups,
                   group_id, exact_groups, file_hashes, perceptual_groups, pc, run,
                   prev, sel, sha256_reads, ret, hashed, seed_index, seed_group,
                   min_distance, processed_files, comparisons>>

\* lines 109-115: file2 is compared with file1
Compare ==
    /\ pc = "scan"
    /\ scan_index <= Len(file_hashes)
    /\ file_hashes[scan_index].path \notin processed_files
    /\ LET distance == hamming_distance(file_hashes[seed_index].phash,
                                        file_hashes[scan_index].phash)
       IN  IF distance <= phash_threshold
           THEN /\ seed_group' = Append(seed_group, file_hashes[scan_index].path)
                /\ min_distance' = IF min_distance = None \/ distance < min_distance
                                   THEN distance ELSE min_distance
           ELSE UNCHANGED <<seed_group, min_distance>>
    /\ comparisons' = Append(comparisons, <<seed_index, scan_index>>)
    /\ scan_index' = scan_index + 1
    /\ UNCHANGED <<world, cli, copying, sha256_cache, phash_cache, duplicate_groups,
                   group_id, exact_groups, file_hashes, perceptual_groups, pc, run,
                   prev, sel, sha256_reads, ret, hashed, seed_index, processed_files>>

\* lines 117-119: the inner loop is over
CloseSeed ==
    /\ pc = "scan"
    /\ scan_index > Len(file_hashes)
    /\ IF Len(seed_group) > 1
       THEN /\ processed_files' = processed_files \cup Range(seed_group)
            /\ perceptual_groups' =
                   Append(perceptual_groups,
                          [group_files |-> seed_group,
                           distance |-> IF Truthy(min_distance) THEN min_distance ELSE 0])
       ELSE UNCHANGED <<processed_files, perceptual_groups>>
    /\ seed_index' = seed_index + 1
    /\ pc' = "seed"
    /\ UNCHANGED <<world, cli, copying, sha256_cache, phash_cache, duplicate_groups,
                   group_id, exact_groups, file_hashes, run, prev, sel, sha256_reads,
                   ret, hashed, scan_index, seed_group, min_distance, comparisons>>

\* lines 121-122 and 216: the outer loop is over, the groups are returned
EndClustering ==
    /\ pc = "seed"
    /\ seed_index > Len(file_hashes)
    /\ pc' = IF perceptual_groups = <<>> THEN "return" ELSE "perceptual_groups"
    /\ UNCHANGED <<world, cli, copying, sha256_cache, phash_cache, duplicate_groups,
                   group_id, exact_groups, file_hashes, perceptual_groups, run, prev,
                   sel, sha256_reads, ret, locals>>

NextSteps ==
    \/ Begin
    \/ FindExactDuplicates
    \/ ExactGroup
    \/ EnterPerceptual
    \/ HashImage
    \/ StartClustering
    \/ SkipSeed
    \/ OpenSeed
    \/ SkipProcessed
    \/ Compare
    \/ CloseSeed
    \/ EndClustering
    \/ PerceptualGroup
    \/ Return

SpecSteps == Init /\ [][NextSteps]_vars

\* where the thread of create_duplicate_groups stands: the stage and the
\* indices of its loops
position == <<pc, group_id, hashed, seed_index, scan_index>>

\* the call has neither returned nor raised
Running == pc \notin {"done", "raised"}

Stages == {"idle", "exact_scan", "exact_groups", "perceptual_hash", "hash_images",
           "seed", "scan", "perceptual_groups", "return", "done", "raised"}

\* the thread moves on: a step of a running call, told by what it does to the
\* position
Advance ==
    /\ Running
    /\ pc' \in Stages
    /\ group_id' \in {0, group_id, NextGroupId(group_id)}
    /\ hashed' \in {0, hashed, hashed + 1}
    /\ seed_index' \in {0, 1, seed_index, seed_index + 1}
    /\ scan_index' \in {0, scan_index, scan_index + 1, seed_index + 1}

\* create_duplicate_groups runs on one thread, which is not suspended for ever:
\* as long as the call runs, it takes its next step
SpecStepsFair == SpecSteps /\ WF_position(Advance)

\* the steps of the call are the moves of the thread, and a running call has a
\* next step
StepsAdvance ==
    [][/\ position' # position
       /\ Advance]_vars

\* the steps arrive at what the pass computes in one piece
StepsAgreeWithPass ==
    /\ pc \in {"seed", "scan"} =>
           file_hashes = compute_file_hashes(
                             RemainingFiles(files, ProcessedFiles(duplicate_groups)),
                             EmptyPhashCache).file_hashes
    /\ (pc = "seed" /\ seed_index > Len(file_hashes)) =>
           perceptual_groups = cluster_file_hashes(file_hashes)

\* ------------------------------------------------------------- cli.main
\* The input directories main can be pointed at, each with the media files
\* scan_directory finds in it, in the order of os.walk: a takeout with
\* a.jpg, b.jpg and d.jpg, a takeout with c.mp4 and e.jpg, and a directory
\* with no media file.
Takeouts == [photos |-> <<1, 2, 4>>, videos |-> <<3, 5>>, empty |-> <<>>]

Roots == DOMAIN Takeouts

\* Config.action
Actions == {"copy", "move", "dry-run"}

\* the year get_capture_year finds for a file, unknown_year_dir where it finds none
CaptureYears == <<"2019", "2019", "2020", "2021", "_UNKNOWN", "2021">>

\* Scanner.auto_detect_photos_folder: None where the directory has no media
auto_detect_photos_folder(input_dir) ==
    IF Takeouts[input_dir] = <<>> THEN "" ELSE input_dir

\* Scanner.scan_directory
scan_directory(root_dir) == Takeouts[root_dir]

\* Scanner.scan_inputs: the files of every input, one input after the other
scan_inputs(input_dirs) ==
    LET F[i \in 0..Len(input_dirs)] ==
            IF i = 0 THEN <<>>
            ELSE LET before == F[i - 1]
                     photos_folder == auto_detect_photos_folder(input_dirs[i])
                 IN  IF photos_folder = "" THEN before
                     ELSE before \o scan_directory(photos_folder)
    IN  F[Len(input_dirs)]

\* main, line 359: if not all_files
\* (NoMediaFound_never: main goes on whatever the scan found)
NoMediaFound_never(all_files) == FALSE

NoMediaFound(all_files) == all_files = <<>>

\* Path(group.winner): a Path, which has no attribute winner
PathOf(p) == [type |-> "Path", path |-> p]

\* date_utils.get_capture_year_for_group(group, ...): group.winner is read first
get_capture_year_for_group(arg) ==
    IF arg.type # "DuplicateGroup"
    THEN [raised |-> TRUE, year |-> ""]
    ELSE [raised |-> FALSE, year |-> CaptureYears[arg.winner]]

\* process_files, lines 238-251: file_to_year, a later group overwriting the
\* year of a file an earlier group holds
group_years(groups) ==
    LET F[i \in 0..Len(groups)] ==
            IF i = 0 THEN [raised |-> FALSE, file_to_year |-> [p \in {} |-> ""]]
            ELSE LET before == F[i - 1]
                     g == groups[i]
                     r == get_capture_year_for_group(PathOf(g.winner))
                     members == {g.winner} \cup Range(g.duplicates)
                 IN  IF before.raised THEN before
                     ELSE IF r.raised THEN [raised |-> TRUE, file_to_year |-> before.file_to_year]
                     ELSE [raised |-> FALSE,
                           file_to_year |->
                               [p \in DOMAIN before.file_to_year \cup members |->
                                   IF p \in members THEN r.year ELSE before.file_to_year[p]]]
    IN  F[Len(groups)]

\* one loop of process_files: safe_copy or safe_move is called on every file of
\* the list, an exception of the call is logged and the loop goes on
hand_over(act, file_list, dir, file_to_year, by_year) ==
    [i \in DOMAIN file_list |->
        [op |-> act, src |-> file_list[i], dst |-> dir,
         year |-> IF ~by_year THEN ""
                  ELSE IF file_list[i] \in DOMAIN file_to_year
                  THEN file_to_year[file_list[i]] ELSE "_UNKNOWN"]]

\* cli.process_files
process_files(act, winners, duplicates, by_year, groups) ==
    IF act = "dry-run" THEN [raised |-> FALSE, handed |-> <<>>]
    ELSE IF by_year /\ groups # <<>>
    THEN LET years == group_years(groups)
         IN  IF years.raised THEN [raised |-> TRUE, handed |-> <<>>]
             ELSE [raised |-> FALSE,
                   handed |-> hand_over(act, winners, "UNIQUE", years.file_to_year, TRUE)
                              \o hand_over(act, duplicates, "DUPLICATES",
                                           years.file_to_year, TRUE)]
    ELSE [raised |-> FALSE,
          handed |-> hand_over(act, winners, "UNIQUE", <<>>, FALSE)
                     \o hand_over(act, duplicates, "DUPLICATES", <<>>, FALSE)]

\* main after config.validate(): at least one input directory, a mode, an
\* action and a threshold of those validate lets through; no Deduplicator yet
InitCli ==
    /\ inputs \in SeqsUpTo(Roots, MaxInputs) \ {<<>>}
    /\ mode \in Modes
    /\ action \in Actions
    /\ group_by_year \in BOOLEAN
    /\ phash_threshold \in 0..MaxThreshold
    /\ files = <<>>
    /\ disk = Disk
    /\ unreadable \in {b \in SUBSET Range(scan_inputs(inputs)) : Cardinality(b) <= MaxUnreadable}
    /\ sha256_cache = EmptySha256Cache
    /\ phash_cache = EmptyPhashCache
    /\ duplicate_groups = <<>>
    /\ group_id = 0
    /\ exact_groups = <<>>
    /\ file_hashes = <<>>
    /\ perceptual_groups = <<>>
    /\ run = [call |-> 0, instance |-> 0]
    /\ prev = <<>>
    /\ sel = <<>>
    /\ sha256_reads = NoReads
    /\ ret = NoCall
    /\ NoLocals
    /\ NoCopying
    /\ exit_status = None
    /\ reports = 0
    /\ handed = <<>>
    /\ pc = "main"

\* main, lines 353-363: the scan, and the exit when it found nothing
ScanInputs ==
    /\ pc = "main"
    /\ files' = scan_inputs(inputs)
    /\ IF NoMediaFound(files')
       THEN /\ exit_status' = 1
            /\ pc' = "exited"
       ELSE /\ exit_status' = exit_status
            /\ pc' = "scanned"
    /\ UNCHANGED <<mode, phash_threshold, disk, unreadable, sha256_cache, phash_cache,
                   duplicate_groups, group_id, exact_groups, file_hashes,
                   perceptual_groups, run, prev, sel, sha256_reads, ret, locals,
                   copying, inputs, action, group_by_year, reports, handed>>

\* main, line 368: Deduplicator(mode, phash_threshold); line 369 calls it
Construct ==
    /\ pc = "scanned"
    /\ run' = [call |-> 1, instance |-> 1]
    /\ sha256_cache' = EmptySha256Cache
    /\ phash_cache' = EmptyPhashCache
    /\ duplicate_groups' = <<>>
    /\ pc' = "idle"
    /\ UNCHANGED <<world, locals, cli, copying, group_id, exact_groups, file_hashes,
                   perceptual_groups, prev, sel, sha256_reads, ret>>

\* main, line 369: create_duplicate_groups raised; nothing in main catches it
Uncaught ==
    /\ pc = "raised"
    /\ exit_status' = 1
    /\ pc' = "exited"
    /\ UNCHANGED <<world, locals, copying, sha256_cache, phash_cache, duplicate_groups,
                   group_id, exact_groups, file_hashes, perceptual_groups, run, prev,
                   sel, sha256_reads, ret, inputs, action, group_by_year, reports,
                   handed>>

\* main, lines 382-394: the reports
GenerateReports ==
    /\ pc = "done"
    /\ reports' = reports + 1
    /\ pc' = "reported"
    /\ UNCHANGED <<world, locals, copying, sha256_cache, phash_cache, duplicate_groups,
                   group_id, exact_groups, file_hashes, perceptual_groups, run, prev,
                   sel, sha256_reads, ret, inputs, action, group_by_year, exit_status,
                   handed>>

\* main, lines 371-376 and 396-409: process_files on the unique files followed
\* by the winners, and on the duplicates
ProcessFiles ==
    /\ pc = "reported"
    /\ LET winners == get_all_winners
           duplicates == get_all_duplicates
           unique_files == get_unique_files(files)
           all_unique == unique_files \o winners
           r == process_files(action, all_unique, duplicates, group_by_year,
                              duplicate_groups)
       IN  /\ handed' = r.handed
           /\ IF r.raised
              THEN /\ exit_status' = 1
                   /\ pc' = "exited"
              ELSE /\ exit_status' = exit_status
                   /\ pc' = "summary"
    /\ UNCHANGED <<world, locals, copying, sha256_cache, phash_cache, duplicate_groups,
                   group_id, exact_groups, file_hashes, perceptual_groups, run, prev,
                   sel, sha256_reads, ret, inputs, action, group_by_year, reports>>

\* main, lines 411-423: the summary; main returns
Summary ==
    /\ pc = "summary"
    /\ exit_status' = 0
    /\ pc' = "exited"
    /\ UNCHANGED <<world, locals, copying, sha256_cache, phash_cache, duplicate_groups,
                   group_id, exact_groups, file_hashes, perceptual_groups, run, prev,
                   sel, sha256_reads, ret, inputs, action, group_by_year, reports,
                   handed>>

NextCli ==
    \/ ScanInputs
    \/ Construct
    \/ Begin
    \/ FindExactDuplicates
    \/ ExactGroup
    \/ ComputeFingerprints
    \/ ClusterFingerprints
    \/ PerceptualGroup
    \/ Return
    \/ Uncaught
    \/ GenerateReports
    \/ ProcessFiles
    \/ Summary

SpecCli == InitCli /\ [][NextCli]_vars

\* -------------------------------------------------- safe_copy, safe_move
\* The source files: a.jpg and b.jpg in each of three directories; x/a.jpg and
\* y/a.jpg hold the same bytes, z/a.jpg others; y/b.jpg and z/b.jpg hold the
\* same bytes, x/b.jpg others.  A file name is <<stem, tag, suffix>>, the tag
\* empty or the short hash safe_copy puts after "__".
SourceFiles == {
    [dir |-> "x", stem |-> "a", suffix |-> ".jpg", content |-> 1],
    [dir |-> "y", stem |-> "a", suffix |-> ".jpg", content |-> 1],
    [dir |-> "z", stem |-> "a", suffix |-> ".jpg", content |-> 2],
    [dir |-> "x", stem |-> "b", suffix |-> ".jpg", content |-> 1],
    [dir |-> "y", stem |-> "b", suffix |-> ".jpg", content |-> 2],
    [dir |-> "z", stem |-> "b", suffix |-> ".jpg", content |-> 2] }

\* the SHA-256 of a content as a string of (two) digits
hexdigest(content) == <<content, 0>>

\* calculate_sha256(src)[:8]: the first digits of the digest (the first one of the two)
short_hash(digest) == SubSeq(digest, 1, 1)

\* final_path = dst_path / src_path.name
plain_name(src) == <<src.stem, <<>>, src.suffix>>

\* final_path = dst_path / f"{stem}__{short_hash}{suffix}"
hashed_name(src) == <<src.stem, short_hash(hexdigest(src.content)), src.suffix>>

\* final_path.exists()
exists(dir, name) == name \in DOMAIN dir

\* shutil.copy2(src, final_path), shutil.move(src, final_path): the file is
\* written under the name, in the place of a file the name had
write(dir, name, src) ==
    [n \in DOMAIN dir \cup {name} |-> IF n = name THEN src ELSE dir[n]]

\* no call of safe_copy or safe_move has been made; the directory is empty
InitCopy ==
    /\ mode = "exact"
    /\ phash_threshold = 0
    /\ files = <<>>
    /\ disk = Disk
    /\ unreadable = {}
    /\ sha256_cache = EmptySha256Cache
    /\ phash_cache = EmptyPhashCache
    /\ duplicate_groups = <<>>
    /\ group_id = 0
    /\ exact_groups = <<>>
    /\ file_hashes = <<>>
    /\ perceptual_groups = <<>>
    /\ run = [call |-> 0, instance |-> 0]
    /\ prev = <<>>
    /\ sel = <<>>
    /\ sha256_reads = NoReads
    /\ ret = NoCall
    /\ NoLocals
    /\ NoCli
    /\ sources = SourceFiles
    /\ dst_dir = <<>>
    /\ returned = <<>>
    /\ pc = "copy"

\* utils.safe_copy / utils.safe_move(src, dst): the name is the name of the
\* source, or on a collision the name with the short hash; reading the source
\* for the hash may fail, and the call raises
SafeCall(op, src, readable) ==
    /\ pc = "copy"
    /\ src \in sources
    /\ Len(returned) < MaxCalls
    /\ sources' = sources \ {src}
    /\ LET collision == exists(dst_dir, plain_name(src))
           final_path == IF collision THEN hashed_name(src) ELSE plain_name(src)
       IN  IF collision /\ ~readable
           THEN /\ returned' = Append(returned, [op |-> op, src |-> src, raised |-> TRUE,
                                                 final_path |-> <<>>])
                /\ dst_dir' = dst_dir
           ELSE /\ returned' = Append(returned, [op |-> op, src |-> src, raised |-> FALSE,
                                                 final_path |-> final_path])
                /\ dst_dir' = write(dst_dir, final_path, src)
    /\ UNCHANGED <<world, locals, cli, sha256_cache, phash_cache, duplicate_groups,
                   group_id, exact_groups, file_hashes, perceptual_groups, pc, run,
                   prev, sel, sha256_reads, ret>>

SafeCopy(src, readable) == SafeCall("copy", src, readable)

SafeMove(src, readable) == SafeCall("move", src, readable)

NextCopy ==
    \E src \in SourceFiles, readable \in BOOLEAN :
        \/ SafeCopy(src, readable)
        \/ SafeMove(src, readable)

SpecCopy == InitCopy /\ [][NextCopy]_vars

\* =============================================================== claims
\* f is the winner or a member of group g
InGroup(g, f) == f = g.winner \/ f \in Range(g.duplicates)

GroupsOfType(t) ==
    {i \in DOMAIN duplicate_groups : duplicate_groups[i].detection_type = t}

\* the loop over exact_groups has run to its end
ExactPassOver ==
    /\ mode \in ExactModes
    /\ pc \in {"perceptual_hash", "perceptual_cluster", "perceptual_groups",
               "return", "done", "raised"}

\* C1: after create_duplicate_groups has returned, in every mode, the winners,
\* the duplicates and the unique files are pairwise disjoint sets of paths and
\* together they are the set of the input files, so every input file is in
\* exactly one of the three views.
C1_ViewsPartitionInput ==
    pc = "done" =>
        LET W == Range(get_all_winners)
            D == Range(get_all_duplicates)
            U == Range(get_unique_files(files))
        IN  /\ W \cap D = {}
            /\ W \cap U = {}
            /\ D \cap U = {}
            /\ W \cup D \cup U = Range(files)

C1_Witness ==
    /\ pc = "done"
    /\ get_all_winners # <<>>
    /\ get_all_duplicates # <<>>
    /\ get_unique_files(files) # <<>>

\* C2: in every state of a call, in every mode, a file is the winner or a
\* member of at most one group of duplicate_groups; so no file of an exact
\* group is in a perceptual group.
C2_AtMostOneGroup ==
    \A f \in Paths :
        Cardinality({i \in DOMAIN duplicate_groups : InGroup(duplicate_groups[i], f)}) <= 1

\* exact+perceptual: an image left out of every exact group whose fingerprint is
\* within the threshold of that of a file of an exact group, once the
\* perceptual pass has run
C2_Witness ==
    /\ pc = "done"
    /\ mode = "exact+perceptual"
    /\ \E i \in GroupsOfType("exact") : \E f \in Range(files) :
          /\ ~InGroup(duplicate_groups[i], f)
          /\ is_supported_image(f) /\ is_supported_image(duplicate_groups[i].winner)
          /\ disk[f].phash # <<>>
          /\ disk[duplicate_groups[i].winner].phash # <<>>
          /\ hamming_distance(disk[f].phash, disk[duplicate_groups[i].winner].phash)
                <= phash_threshold

\* the entries i and j of the input are in one exact group
SameExactGroup(i, j) ==
    \E k \in GroupsOfType("exact") :
        InGroup(duplicate_groups[k], files[i]) /\ InGroup(duplicate_groups[k], files[j])

DigestComputed(i) == files[i] \notin unreadable

ClaimedResolution(p) ==
    IF disk[p].width = None \/ disk[p].height = None THEN 0
    ELSE disk[p].width * disk[p].height

\* candidate a is before candidate b in the order (resolution descending, size
\* descending, path ascending)
RankedBefore(a, b) ==
    \/ ClaimedResolution(a) > ClaimedResolution(b)
    \/ ClaimedResolution(a) = ClaimedResolution(b) /\ disk[a].size > disk[b].size
    \/ ClaimedResolution(a) = ClaimedResolution(b) /\ disk[a].size = disk[b].size /\ a <= b

\* C4: for a candidate list of at least two files, select_winner returns a
\* candidate w that is first in the order: for every other candidate c,
\* res(w) > res(c), or the resolutions are equal and size(w) > size(c), or both
\* are equal and path(w) <= path(c).
C4_WinnerIsFirstInOrder ==
    (pc = "selected" /\ Len(files) >= 2) =>
        /\ sel.result[1] \in Range(files)
        /\ \A c \in Range(files) \ {sel.result[1]} : RankedBefore(sel.result[1], c)

\* the winner is not the first candidate handed over, and is decided by size
C4_Witness ==
    /\ pc = "selected"
    /\ Len(files) >= 2
    /\ sel.result[1] # files[1]
    /\ ClaimedResolution(sel.result[1]) = ClaimedResolution(files[1])
    /\ disk[sel.result[1]].size > disk[files[1]].size

\* the place of entry i of the candidate list in the ranking (equal entries in
\* the order of their indices)
RankOf(i) ==
    1 + Cardinality({k \in DOMAIN files :
            \/ files[k] # files[i] /\ RankedBefore(files[k], files[i])
            \/ files[k] = files[i] /\ k < i})

Ranked(n) == files[CHOOSE i \in DOMAIN files : RankOf(i) = n]

\* C5: the reason names the first criterion on which the winner differs from
\* the second-ranked candidate: the resolution (with the winner's width and
\* height), else the size (with the winner's size), else the path; for a single
\* candidate the file is returned with the reason 'only file in group'.
C5_ReasonIsFirstDifference ==
    pc = "selected" =>
        IF Len(files) = 1
        THEN sel.result = <<files[1], <<"only file in group">>>>
        ELSE sel.result[2] =
                IF ClaimedResolution(Ranked(1)) # ClaimedResolution(Ranked(2))
                THEN <<"highest resolution", disk[Ranked(1)].width, disk[Ranked(1)].height>>
                ELSE IF disk[Ranked(1)].size # disk[Ranked(2)].size
                THEN <<"largest file size", disk[Ranked(1)].size>>
                ELSE <<"alphabetically first path">>

\* the first two of the ranking differ in resolution and in size, the winner
\* being the larger file too
C5_Witness ==
    /\ pc = "selected"
    /\ Len(files) >= 2
    /\ ClaimedResolution(Ranked(1)) > ClaimedResolution(Ranked(2))
    /\ disk[Ranked(1)].size > disk[Ranked(2)].size
    /\ sel.result[2][1] = "highest resolution"

\* C6: select_winner returns the same winner and the same reason for any two
\* orders of the same candidates.
C6_OrderIndependent ==
    pc = "selected" => sel.reordered = {sel.result}

\* two different candidates tied on resolution and size at the top of the
\* ranking, the winner not the first one handed over
C6_Witness ==
    /\ pc = "selected"
    /\ Len(files) >= 2
    /\ files[1] # Ranked(1)
    /\ Ranked(1) # Ranked(2)
    /\ ClaimedResolution(Ranked(1)) = ClaimedResolution(Ranked(2))
    /\ disk[Ranked(1)].size = disk[Ranked(2)].size

\* ---- two calls
\* the fields of a group the claim compares
Compared(groups) ==
    [i \in DOMAIN groups |->
        [group_id |-> groups[i].group_id,
         detection_type |-> groups[i].detection_type,
         winner |-> groups[i].winner,
         duplicates |-> groups[i].duplicates,
         reason |-> groups[i].reason,
         phash_distance |-> groups[i].phash_distance]]

\* C7: a second call of create_duplicate_groups on the same input, with the
\* files unchanged and the same mode and threshold, on a fresh Deduplicator or
\* on the first one with its caches, returns as the first did, with the same
\* sequence of groups (group_id, detection_type, winner, duplicates, reason,
\* phash_distance).
C7_SecondCallSameGroups ==
    run.call = 2 =>
        /\ pc # "raised"
        /\ pc = "done" => Compared(duplicate_groups) = Compared(prev)

\* the second call, on the same Deduplicator, has returned an exact and a
\* perceptual result with warm caches
C7_Witness ==
    /\ run = [call |-> 2, instance |-> 1]
    /\ pc = "done"
    /\ duplicate_groups # <<>>
    /\ \E p \in Paths : phash_cache[p] # <<>>
    /\ \E p \in Paths : sha256_cache[p] # None

\* ---- failures and repeated paths
\* C8: no file whose digest fails or whose image cannot be decoded makes
\* create_duplicate_groups raise.
C8_NeverRaises == pc # "raised"

\* C9: every group of duplicate_groups has a winner and at least one duplicate.
C9_GroupCoversTwoFiles ==
    \A i \in DOMAIN duplicate_groups :
        /\ duplicate_groups[i].winner # NoPath
        /\ Len(duplicate_groups[i].duplicates) >= 1

\* C10: the duplicates of a group hold no path twice.
C10_DuplicatesHaveNoRepeats ==
    \A i \in DOMAIN duplicate_groups :
        \A m, n \in DOMAIN duplicate_groups[i].duplicates :
            m # n => duplicate_groups[i].duplicates[m] # duplicate_groups[i].duplicates[n]

\* ---- the groups of a result
\* C11: in every mode, the winner of a group of duplicate_groups is not among
\* the duplicates of the group.
C11_WinnerNotInDuplicates ==
    \A i \in DOMAIN duplicate_groups :
        duplicate_groups[i].winner \notin Range(duplicate_groups[i].duplicates)

\* a group whose winner is in the input twice, with another file as duplicate
C11_Witness ==
    /\ pc = "done"
    /\ \E i \in DOMAIN duplicate_groups :
          /\ Len(duplicate_groups[i].duplicates) >= 1
          /\ Cardinality({k \in DOMAIN files : files[k] = duplicate_groups[i].winner}) >= 2

\* C12: the group at index i of duplicate_groups (counted from 0) has group_id
\* i, every exact group is before every perceptual group, and this is so in a
\* later call on the same Deduplicator too, whose first group has id 0 again.
C12_IdsAreIndicesExactFirst ==
    /\ \A i \in DOMAIN duplicate_groups : duplicate_groups[i].group_id = i - 1
    /\ \A i, j \in DOMAIN duplicate_groups :
          (i < j /\ duplicate_groups[i].detection_type = "perceptual")
              => duplicate_groups[j].detection_type = "perceptual"

\* the second call on the same Deduplicator has returned an exact group and
\* after it a perceptual group
C12_Witness ==
    /\ run = [call |-> 2, instance |-> 1]
    /\ pc = "done"
    /\ Len(duplicate_groups) >= 2
    /\ GroupsOfType("exact") # {}
    /\ GroupsOfType("perceptual") # {}

\* ---- the passes
ExactStages == {"exact_scan", "exact_groups"}

PerceptualStages == {"perceptual_hash", "perceptual_cluster", "perceptual_groups"}

\* a step that computes fingerprints
FingerprintStep == phash_cache' # phash_cache \/ file_hashes' # file_hashes

\* what holds of every state of a call, mode by mode
ModeGatesStates ==
    /\ mode = "exact" =>
          /\ pc \notin PerceptualStages
          /\ GroupsOfType("perceptual") = {}
          /\ phash_cache = EmptyPhashCache /\ file_hashes = <<>>
    /\ mode = "perceptual" =>
          /\ pc \notin ExactStages
          /\ GroupsOfType("exact") = {}
          /\ exact_groups = <<>>
    /\ (mode = "exact+perceptual" /\ pc \in {"idle"} \cup ExactStages) =>
          phash_cache = EmptyPhashCache /\ file_hashes = <<>>

\* what holds of every step of a call in mode exact+perceptual: the call starts
\* with the exact pass, fingerprints are computed only when no exact group is
\* left to create, and the call reaches its return only from the perceptual pass
ModeGatesSteps ==
    /\ mode = "exact" => ~FingerprintStep
    /\ mode = "exact+perceptual" =>
          /\ pc = "idle" => pc' = "exact_scan"
          /\ FingerprintStep => pc = "perceptual_hash" /\ exact_groups = <<>>
          /\ pc' = "perceptual_hash" => pc \in ExactStages /\ exact_groups' = <<>>
          /\ pc' = "return" => pc \in PerceptualStages

\* C13: in mode exact the result has no perceptual group and no fingerprint is
\* computed; in mode perceptual the result has no exact group and the exact
\* bucketing is not executed; in mode exact+perceptual both passes run, the
\* exact one first, and no fingerprint is computed before every exact group has
\* been created and appended.
C13_ModeGatesPasses == [](ModeGatesStates) /\ [][ModeGatesSteps]_vars

\* exact+perceptual: an exact group was appended and then a fingerprint computed
C13_Witness ==
    /\ mode = "exact+perceptual"
    /\ pc = "done"
    /\ GroupsOfType("exact") # {}
    /\ phash_cache # EmptyPhashCache

\* ---- the clusters of find_perceptual_duplicates
\* find_perceptual_duplicates has just returned: perceptual_groups is its
\* whole result
ClustersReturned ==
    /\ mode \in {"perceptual", "exact+perceptual"}
    /\ pc \in {"perceptual_groups", "return"}
    /\ GroupsOfType("perceptual") = {}

\* the place of path p in the iteration order of the fingerprints
PlaceOf(p) == CHOOSE k \in DOMAIN file_hashes : file_hashes[k].path = p

\* the file at place j was taken by a cluster opened before place i
TakenBefore(j, i) ==
    \E c \in DOMAIN perceptual_groups :
        /\ file_hashes[j].path \in Range(perceptual_groups[c].group_files)
        /\ PlaceOf(perceptual_groups[c].group_files[1]) < i

FingerprintDistance(i, j) ==
    hamming_distance(file_hashes[i].phash, file_hashes[j].phash)

\* three fingerprinted files A, B, C in this order, B and C within the
\* threshold of A and further than the threshold from each other
ChainScenario ==
    /\ Len(file_hashes) = 3
    /\ FingerprintDistance(1, 2) <= phash_threshold
    /\ FingerprintDistance(1, 3) <= phash_threshold
    /\ FingerprintDistance(2, 3) > phash_threshold

\* C14: when the file at place i opens a cluster as its seed, every later file
\* not yet taken by an earlier cluster whose distance to the seed is at most
\* the threshold is in that cluster, whatever its distance to the other files of
\* the cluster; so for files A, B, C with B and C within the threshold of A and
\* further than the threshold from each other, the result is the single group
\* of A, B and C.
C14_SeedTakesAllWithinThreshold ==
    ClustersReturned =>
        /\ \A i, j \in DOMAIN file_hashes :
              (/\ i < j
               /\ ~TakenBefore(i, i)
               /\ ~TakenBefore(j, i)
               /\ FingerprintDistance(i, j) <= phash_threshold)
              => \E c \in DOMAIN perceptual_groups :
                    /\ perceptual_groups[c].group_files[1] = file_hashes[i].path
                    /\ file_hashes[j].path \in Range(perceptual_groups[c].group_files)
        /\ ChainScenario =>
              /\ Len(perceptual_groups) = 1
              /\ perceptual_groups[1].group_files =
                    [k \in 1..3 |-> file_hashes[k].path]

C14_Witness ==
    /\ ClustersReturned
    /\ ChainScenario
    /\ Len(perceptual_groups) = 1
    /\ Len(perceptual_groups[1].group_files) = 3

\* ---- the perceptual groups of a result
Members(g) == {g.winner} \cup Range(g.duplicates)

\* the seed of a perceptual group: its file that comes first in the iteration
\* order of the fingerprints
SeedOf(g) ==
    CHOOSE s \in Members(g) : \A m \in Members(g) : PlaceOf(s) <= PlaceOf(m)

\* the distance of the fingerprints of two image files
ImageDistance(p, q) == hamming_distance(disk[p].phash, disk[q].phash)

\* C15: every perceptual group has a seed, its file first in the iteration order
\* of the fingerprints, and every other file of the group is at a distance of at
\* most phash_threshold from the seed; the comparison is inclusive: two
\* fingerprinted files at a distance of exactly the threshold are grouped.
C15_MembersWithinThresholdOfSeed ==
    /\ \A i \in GroupsOfType("perceptual") :
          \A m \in Members(duplicate_groups[i]) \ {SeedOf(duplicate_groups[i])} :
              ImageDistance(SeedOf(duplicate_groups[i]), m) <= phash_threshold
    /\ (/\ pc = "done"
        /\ Len(file_hashes) = 2
        /\ FingerprintDistance(1, 2) = phash_threshold)
       => \E i \in GroupsOfType("perceptual") :
             Members(duplicate_groups[i]) = {file_hashes[1].path, file_hashes[2].path}

\* a perceptual group with a file at exactly the threshold, not 0, from the seed
C15_Witness ==
    /\ pc = "done"
    /\ phash_threshold >= 1
    /\ \E i \in GroupsOfType("perceptual") :
          \E m \in Members(duplicate_groups[i]) :
              ImageDistance(SeedOf(duplicate_groups[i]), m) = phash_threshold

\* the number of bits in which the fingerprints of two images differ
BitsApart(p, q) ==
    Cardinality({b \in DOMAIN disk[p].phash : disk[p].phash[b] # disk[q].phash[b]})

\* the least distance between the seed of a group and another of its files
LeastSeedDistance(g) ==
    LET ds == {BitsApart(SeedOf(g), m) : m \in Members(g) \ {SeedOf(g)}}
    IN  CHOOSE d \in ds : \A e \in ds : d <= e

\* C16: the phash_distance of a perceptual group is the minimum, over the files
\* of its cluster other than the seed, of the distance between the seed and the
\* file, so it is between 0 and phash_threshold; the phash_distance of an exact
\* group is None.
C16_DistanceIsLeastSeedDistance ==
    \A i \in DOMAIN duplicate_groups :
        IF duplicate_groups[i].detection_type = "perceptual"
        THEN /\ duplicate_groups[i].phash_distance = LeastSeedDistance(duplicate_groups[i])
             /\ duplicate_groups[i].phash_distance >= 0
             /\ duplicate_groups[i].phash_distance <= phash_threshold
        ELSE duplicate_groups[i].phash_distance = None

\* a perceptual group with two files at different distances from its seed
C16_Witness ==
    /\ pc = "done"
    /\ \E i \in GroupsOfType("perceptual") :
          \E m, n \in Members(duplicate_groups[i]) \ {SeedOf(duplicate_groups[i])} :
              BitsApart(SeedOf(duplicate_groups[i]), m)
                  < BitsApart(SeedOf(duplicate_groups[i]), n)

\* ---- an identical pair and a similar third image
\* p is an image file with a fingerprint
Fingerprinted(p) == is_supported_image(p) /\ disk[p].phash # <<>>

InExactGroup(p) ==
    \E i \in GroupsOfType("exact") : p \in Members(duplicate_groups[i])

\* the third files of the input: images outside the identical pair, with a
\* digest of their own and a fingerprint within the threshold of the pair's
ThirdFiles ==
    {x \in Range(files) \ IdenticalPair :
        /\ Fingerprinted(x)
        /\ \A p \in IdenticalPair :
              /\ disk[x].sha # disk[p].sha
              /\ Fingerprinted(p)
              /\ BitsApart(x, p) <= phash_threshold}

\* the other images outside every exact group within the threshold of x
SimilarOutsideExact(x) ==
    {y \in Range(files) \ {x} :
        /\ Fingerprinted(y)
        /\ ~InExactGroup(y)
        /\ BitsApart(x, y) <= phash_threshold}

GroupedTogether(x, y) ==
    \E i \in GroupsOfType("perceptual") : {x, y} \subseteq Members(duplicate_groups[i])

InPerceptualGroup(x) ==
    \E i \in GroupsOfType("perceptual") : x \in Members(duplicate_groups[i])

\* exactly one exact group, which holds the identical pair and no third file
OneExactGroupOfThePair ==
    /\ Cardinality(GroupsOfType("exact")) = 1
    /\ \A i \in GroupsOfType("exact") : Members(duplicate_groups[i]) = IdenticalPair

\* C17 as stated: in mode exact+perceptual, for an input with two
\* byte-identical images and a third image of another digest whose fingerprint
\* is within the threshold of theirs, the result has exactly one exact group,
\* the pair; the third file is not in it; and the third file is among the
\* unique files unless another image outside every exact group is within the
\* threshold of it, and then it is in a perceptual group with such an image.
C17_ThirdFileAsStated ==
    (pc = "done" /\ mode = "exact+perceptual") =>
        /\ OneExactGroupOfThePair
        /\ \A x \in ThirdFiles :
              IF SimilarOutsideExact(x) = {}
              THEN x \in Range(get_unique_files(files))
              ELSE \E y \in SimilarOutsideExact(x) : GroupedTogether(x, y)

\* C17, amended: exactly one exact group, the pair, without the third file; the
\* third file is among the unique files if no other image outside every exact
\* group is within the threshold of it; if there is such an image, the third
\* file or that image is in a perceptual group, and they are in one together
\* when they are the only fingerprinted files outside the exact group; a third
\* file in no perceptual group is among the unique files.
C17_ThirdFileAmended ==
    (pc = "done" /\ mode = "exact+perceptual") =>
        /\ OneExactGroupOfThePair
        /\ \A x \in ThirdFiles :
              /\ ~InExactGroup(x)
              /\ SimilarOutsideExact(x) = {} => x \in Range(get_unique_files(files))
              /\ ~InPerceptualGroup(x) => x \in Range(get_unique_files(files))
              /\ \A y \in SimilarOutsideExact(x) :
                    /\ InPerceptualGroup(x) \/ InPerceptualGroup(y)
                    /\ Len(file_hashes) = 2 => GroupedTogether(x, y)

\* the third file grouped with another image outside the exact group, while a
\* further image within the threshold of the pair stays unique
C17_Witness ==
    /\ pc = "done"
    /\ mode = "exact+perceptual"
    /\ OneExactGroupOfThePair
    /\ \E x \in ThirdFiles : \E y \in SimilarOutsideExact(x) : GroupedTogether(x, y)
    /\ \E x \in ThirdFiles : x \in Range(get_unique_files(files))

\* ---- fingerprints that cannot be compared
Incomparable ==
    /\ Len(file_hashes) = 2
    /\ Len(file_hashes[1].phash) # Len(file_hashes[2].phash)

\* C18: comparing two fingerprints of different lengths fails with an error:
\* hamming_distance returns no number for them, and find_perceptual_duplicates
\* does not go on to cluster the pair as dissimilar or similar.
C18_IncomparableFails ==
    Incomparable =>
        /\ ret.op = "hamming_distance" => ret.raised
        /\ pc \notin {"perceptual_groups", "return"}

\* ---- the reads of a call
\* C19: within one call of create_duplicate_groups calculate_sha256 is called
\* on a path at most once: a path whose digest failed is not attempted again,
\* and a path whose digest succeeded is served from sha256_cache afterwards,
\* in _get_file_metadata too.
C19_DigestReadAtMostOnce ==
    \A p \in Paths : sha256_reads[p] <= 1

\* ---- the caches
\* the last call was made with use_cache = False and returned a hash
BypassReturned ==
    /\ ret.op \in {"get_sha256", "get_phash"}
    /\ ~ret.use_cache
    /\ ~ret.raised
    /\ IF ret.op = "get_sha256" THEN ret.value # None ELSE ret.value # <<>>

\* the cache entry of p, if any, is the hash of the file as it is
FreshSha256(p) == sha256_cache[p] \in {None, disk[p].sha}

FreshPhash(p) == phash_cache[p] \in {<<>>, disk[p].phash}

\* a call with use_cache = False returns the hash of the content as it is now,
\* and the cache entry of the path is that hash
BypassReturnsCurrent ==
    BypassReturned =>
        IF ret.op = "get_sha256"
        THEN ret.value = disk[ret.path].sha /\ sha256_cache[ret.path] = ret.value
        ELSE ret.value = disk[ret.path].phash /\ phash_cache[ret.path] = ret.value

\* two calls with use_cache = False in a row on one path, no file overwritten
\* in between, return the same; and a call leaves every entry that was the hash
\* of its file the hash of its file, and makes the entry it writes one
CallsKeepCachesFresh ==
    /\ (/\ BypassReturned /\ BypassReturned'
        /\ ret'.op = ret.op /\ ret'.path = ret.path)
       => ret'.value = ret.value
    /\ disk' = disk =>
          \A p \in Paths :
              /\ (\/ FreshSha256(p)
                  \/ BypassReturned' /\ ret'.op = "get_sha256" /\ ret'.path = p)
                 => FreshSha256(p)'
              /\ (\/ FreshPhash(p)
                  \/ BypassReturned' /\ ret'.op = "get_phash" /\ ret'.path = p)
                 => FreshPhash(p)'

\* C20: get_sha256(p, use_cache=False) and get_phash(p, use_cache=False) ignore
\* the cached entry of p, return the hash of the file's current content and
\* overwrite the cache entry with it; two such calls on an unchanged file return
\* equal values; and calls on unchanged files leave every cache entry equal to
\* the hash a fresh computation would return.
C20_BypassIsFreshAndIdempotent ==
    [](BypassReturnsCurrent) /\ [][CallsKeepCachesFresh]_vars

\* a call with use_cache = False has returned the hash of an overwritten file
\* while the entry of another overwritten file is still that of its old content
C20_Witness ==
    /\ BypassReturned
    /\ disk[ret.path] # Disk[ret.path]
    /\ \E q \in Paths : ~FreshSha256(q) \/ ~FreshPhash(q)

\* ---- the groups already in the list
\* a step of a call: not the start of a call, not the hand-over to another call
StepOfACall == pc # "idle" /\ run' = run

\* every group of the list is in the list after the step, at its place, with
\* every field as it was
GroupsKept ==
    \A k \in DOMAIN duplicate_groups :
        /\ k \in DOMAIN duplicate_groups'
        /\ duplicate_groups'[k] = duplicate_groups[k]

\* C21: once a DuplicateGroup is in duplicate_groups none of its fields changes
\* for the rest of the call: no step of the perceptual pass changes an exact
\* group, and appending a later group changes no earlier group.
C21_GroupsNeverMutated == [][StepOfACall => GroupsKept]_vars

\* a call has returned an exact group followed by a perceptual group
C21_Witness ==
    /\ pc = "done"
    /\ Len(duplicate_groups) >= 2
    /\ duplicate_groups[1].detection_type = "exact"
    /\ duplicate_groups[2].detection_type = "perceptual"

\* ---- the order of the steps of the perceptual pass
\* the step calls hamming_distance
ComparisonStep == comparisons' # comparisons

\* every image handed to find_perceptual_duplicates has been through get_phash,
\* and file_hashes holds the fingerprint of each that has one
EveryFingerprintComputed ==
    /\ hashed = Len(image_files)
    /\ \A k \in DOMAIN image_files :
           disk[image_files[k]].phash # <<>> =>
               \E n \in DOMAIN file_hashes :
                   file_hashes[n] = [path |-> image_files[k],
                                     phash |-> disk[image_files[k]].phash]

ClusteringStages == {"seed", "scan"}

\* the step is one of the clustering, and the step selects no winner
ClusteringRuns == pc \in ClusteringStages

\* the step is one of the loops of create_duplicate_groups, where winners are
\* selected
SelectionStep == duplicate_groups' # duplicate_groups /\ StepOfACall

\* C22: in the perceptual pass hamming_distance is not called before every
\* candidate image has been through get_phash; while the clustering runs, the
\* map from path to fingerprint and the order of its keys stay as they are;
\* clustering and winner selection are steps of one thread: a step of the one
\* is never a step of the other.
C22_ClusteringOnFixedFingerprints ==
    [][/\ ComparisonStep => EveryFingerprintComputed
       /\ ClusteringRuns => (file_hashes' = file_hashes /\ phash_cache' = phash_cache)
       /\ ClusteringRuns => ~SelectionStep
       /\ SelectionStep => UNCHANGED <<file_hashes, locals>>]_vars

\* the second file after a seed is being compared, three fingerprints on the map
C22_Witness ==
    /\ pc = "scan"
    /\ Len(file_hashes) >= 3
    /\ Len(comparisons) >= 1
    /\ scan_index = seed_index + 2

\* ---- the end of a call, the number of comparisons
\* the unordered pairs of places of file_hashes
PairsOfFingerprinted ==
    {pair \in SUBSET DOMAIN file_hashes : Cardinality(pair) = 2}

\* the unordered pair the n-th call of hamming_distance was made on
ComparedPair(n) == {comparisons[n][1], comparisons[n][2]}

\* at most n(n-1)/2 calls of hamming_distance for n fingerprinted files, none on
\* a pair compared before
ComparisonsBounded ==
    /\ 2 * Len(comparisons) <= Len(file_hashes) * (Len(file_hashes) - 1)
    /\ \A m, n \in DOMAIN comparisons :
           /\ ComparedPair(n) \in PairsOfFingerprinted
           /\ m # n => ComparedPair(m) # ComparedPair(n)

\* a call ends, whether it returns or raises, and its comparisons stay bounded
CallEndsWithBoundedComparisons ==
    /\ <>(pc \in {"done", "raised"})
    /\ [](ComparisonsBounded)

\* C27: create_duplicate_groups terminates for every finite input list in
\* every mode, going from the start through the passes of the mode to the
\* return of the group list.
C27_CallReturnsGroupList == <>(pc = "done")

\* ---- what the perceptual pass leaves ungrouped, and what it groups
\* the call has returned and has been through the perceptual pass
PerceptualPassOver == pc = "done" /\ mode \in PerceptualModes

\* the path received a fingerprint in the perceptual pass of the call
ReceivedFingerprint(p) == \E n \in DOMAIN file_hashes : file_hashes[n].path = p

\* the fingerprint the path received
FingerprintOf(p) == file_hashes[PlaceOf(p)].phash

\* the path is in no group of the result
IsUnique(p) == p \in Range(get_unique_files(files))

\* C28: after the perceptual pass any two files that received a fingerprint
\* in the pass and are both among the unique files are more than
\* phash_threshold bits apart.
C28_UniquesAreFarApart ==
    PerceptualPassOver =>
        \A p, q \in Range(files) :
            (p # q /\ ReceivedFingerprint(p) /\ ReceivedFingerprint(q)
                   /\ IsUnique(p) /\ IsUnique(q))
                => hamming_distance(FingerprintOf(p), FingerprintOf(q)) > phash_threshold

\* two fingerprinted files have been left unique under a threshold above 0
C28_Witness ==
    /\ PerceptualPassOver
    /\ phash_threshold >= 1
    /\ Len(files) >= 3
    /\ \E p, q \in Range(files) :
           /\ p # q
           /\ ReceivedFingerprint(p) /\ ReceivedFingerprint(q)
           /\ IsUnique(p) /\ IsUnique(q)

\* the files that received fingerprint h
FingerprintClass(h) == {file_hashes[n].path : n \in {m \in DOMAIN file_hashes : file_hashes[m].phash = h}}

\* the classes of equal fingerprints of two files or more
FingerprintClasses ==
    {c \in {FingerprintClass(file_hashes[n].phash) : n \in DOMAIN file_hashes} :
        Cardinality(c) >= 2}

\* the perceptual groups of the result, as sets of files
PerceptualGroupSets ==
    {Members(duplicate_groups[k]) :
        k \in {n \in DOMAIN duplicate_groups :
                  duplicate_groups[n].detection_type = "perceptual"}}

\* C29: two files that received the same fingerprint are in the same
\* perceptual group, whatever the threshold and the order of the input; with
\* threshold 0 the perceptual groups are the classes of equal fingerprints of
\* two files or more, which do not depend on the order of the input.
C29_EqualFingerprintsStayTogether ==
    PerceptualPassOver =>
        /\ \A c \in FingerprintClasses : \E g \in PerceptualGroupSets : c \subseteq g
        /\ phash_threshold = 0 => PerceptualGroupSets = FingerprintClasses

\* two files of one fingerprint and a file of another have been clustered
C29_Witness ==
    /\ PerceptualPassOver
    /\ FingerprintClasses # {}
    /\ Len(file_hashes) >= 3
    /\ PerceptualGroupSets # {}

\* C30: two files of one perceptual group are at most 2 * phash_threshold bits
\* apart; they may be more than phash_threshold bits apart.
C30_GroupDiameterWithinTwiceThreshold ==
    \A k \in DOMAIN duplicate_groups :
        duplicate_groups[k].detection_type = "perceptual" =>
            \A p, q \in Members(duplicate_groups[k]) :
                ImageDistance(p, q) <= 2 * phash_threshold

\* a perceptual group holds two files more than phash_threshold bits apart
C30_Witness ==
    \E k \in DOMAIN duplicate_groups :
        /\ duplicate_groups[k].detection_type = "perceptual"
        /\ \E p, q \in Members(duplicate_groups[k]) :
               ImageDistance(p, q) > phash_threshold

\* ---- cli.main
\* the scan is over and found no media file
ScanFoundNothing == pc # "main" /\ files = <<>>

\* C23: when the scan of the inputs yields no media file, main exits with
\* status 1, no Deduplicator has been constructed, no report generated and no
\* file handed to safe_copy or safe_move; a Deduplicator the CLI constructed is
\* never called on an empty list.
C23_EmptyScanExitsEarly ==
    /\ ScanFoundNothing =>
           /\ pc = "exited"
           /\ exit_status = 1
           /\ run.instance = 0
           /\ reports = 0
           /\ handed = <<>>
    /\ run.instance # 0 => files # <<>>

\* main has exited on two input directories without a media file
C23_Witness ==
    /\ ScanFoundNothing
    /\ pc = "exited"
    /\ Len(inputs) >= 2

\* the calls of safe_copy / safe_move on file p into directory dir
HandedTo(p, dir) == {n \in DOMAIN handed : handed[n].src = p /\ handed[n].dst = dir}

\* main is over, after a scan that found media files
MainIsOver == pc = "exited" /\ files # <<>>

\* C24: with action copy or move and group_by_year disabled, main hands every
\* scanned file to safe_copy / safe_move exactly once, the unique files and the
\* winners into UNIQUE, the duplicates into DUPLICATES, so that of every group
\* the winner alone is under UNIQUE; with action dry-run it hands over no file.
C24_EveryFileHandedOnce ==
    MainIsOver =>
        /\ (action \in {"copy", "move"} /\ ~group_by_year) =>
               /\ \A p \in Range(files) :
                      Cardinality(HandedTo(p, "UNIQUE") \cup HandedTo(p, "DUPLICATES")) = 1
               /\ \A k \in DOMAIN duplicate_groups :
                      /\ HandedTo(duplicate_groups[k].winner, "UNIQUE") # {}
                      /\ \A d \in Range(duplicate_groups[k].duplicates) :
                             /\ HandedTo(d, "DUPLICATES") # {}
                             /\ HandedTo(d, "UNIQUE") = {}
        /\ action = "dry-run" => handed = <<>>

\* the files of group g
FilesOfGroup(g) == {g.winner} \cup Range(g.duplicates)

\* C26: with group_by_year enabled, action copy or move and at least one
\* duplicate group, process_files runs to completion and hands the winner and
\* every duplicate of a group over with the year of the group's winner.
C26_GroupsPlacedUnderWinnerYear ==
    (/\ MainIsOver
     /\ reports > 0
     /\ group_by_year
     /\ action \in {"copy", "move"}
     /\ duplicate_groups # <<>>) =>
        /\ exit_status = 0
        /\ \A k \in DOMAIN duplicate_groups :
               \A p \in FilesOfGroup(duplicate_groups[k]) :
                   \E n \in DOMAIN handed :
                       /\ handed[n].src = p
                       /\ handed[n].year = CaptureYears[duplicate_groups[k].winner]

\* ---- safe_copy, safe_move
\* the calls that returned a final path
ReturnedCalls == {n \in DOMAIN returned : ~returned[n].raised}

\* C25: after any sequence of safe_copy or safe_move calls from distinct
\* source files into one destination directory, the final paths returned are
\* pairwise distinct and the directory holds one file for every call that
\* returned (no call has overwritten the file of an earlier call), also when
\* sources share name and content.
C25_NoCallOverwrites ==
    /\ \A m, n \in ReturnedCalls :
           m # n => returned[m].final_path # returned[n].final_path
    /\ Cardinality(DOMAIN dst_dir) = Cardinality(ReturnedCalls)
    /\ \A n \in ReturnedCalls :
           /\ returned[n].final_path \in DOMAIN dst_dir
           /\ dst_dir[returned[n].final_path] = returned[n].src

====
